---- MODULE Spec2Model ----
(***************************************************************************)
(* Reconciliation of Incus profiles (plugins/modules/incus_profile.py) and *)
(* custom storage volumes (plugins/modules/incus_storage_volume.py).       *)
(*                                                                         *)
(* A run is one invocation of IncusProfile.run or IncusStorageVolume.run.  *)
(* Every action below is one Gateway call (run_incus / run_incus_input)    *)
(* together with the code that follows it up to the next Gateway call or   *)
(* to exit_json / fail_json, which end the process.                        *)
(*                                                                         *)
(* Python values are records [t, v]: t is the Python type ("none", "str",  *)
(* "int") and v the text str() gives for the value, so that 1 and "1" are  *)
(* different values with the same str().  A dict is a function; a dict     *)
(* entry that may be missing or None is [some, m] (dict.get() gives None   *)
(* for both).                                                              *)
(***************************************************************************)
EXTENDS Integers, Sequences, FiniteSets, TLC

\* ---------------------------------------------------------------- bounds
\* Number of consecutive runs of the harness: run 1 is any request, run r+1
\* repeats the request of run r (possibly toggling check mode).
MaxRuns == 2

\* Number of show queries of one run that may fail although the resource
\* exists (non-zero exit status, empty or undecodable output).
MaxGlitches == 1

Runs == 1..MaxRuns

\* ---------------------------------------------------------- Python values
None == [t |-> "none", v |-> "None"]
S(s) == [t |-> "str", v |-> s]
I(s) == [t |-> "int", v |-> s]

\* str(x), "{}".format(x)
PyStr(x) == S(x.v)

EmptyMap == [k \in {} |-> None]
NoMap == [some |-> FALSE, m |-> EmptyMap]
Some(m) == [some |-> TRUE, m |-> m]

MapsOver(K, V) == UNION {[D -> V] : D \in SUBSET K}

\* d.get(k, default)
Get(d, k, default) == IF k \in DOMAIN d THEN d[k] ELSE default

\* d[k] = v
Put(d, k, v) == [x \in DOMAIN d \cup {k} |-> IF x = k THEN v ELSE d[x]]

\* del d[k]
Del(d, k) == [x \in DOMAIN d \ {k} |-> d[x]]

\* ------------------------------------------------------- parameter domains
Keys == {"a", "b"}

DevX == [type |-> "nic", network |-> "x"]
DevY == [type |-> "nic", network |-> "y"]
DevXM == [type |-> "nic", network |-> "x", mtu |-> "1500"]

\* values a config parameter may take: null or an integer
ParamVals == {None, I("1")}

ParamConfigs == {NoMap} \cup {Some(m) : m \in MapsOver(Keys, ParamVals)}
ParamDevices == {NoMap, Some(EmptyMap), Some([eth0 |-> DevY])}
ParamDescriptions == {None, S("d1")}

LiveConfigs == {EmptyMap, [a |-> S("1")], [a |-> S("2"), b |-> S("2")]}
LiveDevices == {EmptyMap, [eth0 |-> DevXM, eth1 |-> DevX]}
LiveDescriptions == {S(""), S("d1")}

\* A document: the mapping yaml.safe_load gives for a profile.
Doc(d, c, v) == [description |-> d, config |-> c, devices |-> v]

\* Declaration files: every subset of the three fields.
FileDocs ==
    {Doc(d, c, v) : d \in {None, S("d1")},
                    c \in {NoMap, Some([a |-> S("1")])},
                    v \in {NoMap, Some([eth0 |-> DevY])}}

\* params['source']: not given, a path that does not exist, a file that
\* cannot be read, or a file with a document.
Sources ==
    {[kind |-> "none", doc |-> Doc(None, NoMap, NoMap)],
     [kind |-> "missing", doc |-> Doc(None, NoMap, NoMap)],
     [kind |-> "unreadable", doc |-> Doc(None, NoMap, NoMap)]}
    \cup {[kind |-> "file", doc |-> d] : d \in FileDocs}

\* --------------------------------------------------------------- requests
\* module.params and module.check_mode of one invocation.  A string
\* parameter that was not given is "" (the code tests them for truth only).
Request(kind, state, check, src, desc, cfg, devs, snap, att, dev, exp, imp, tp, tv, mv) ==
    [kind |-> kind, state |-> state, check_mode |-> check, source |-> src,
     description |-> desc, config |-> cfg, devices |-> devs, snapshot |-> snap,
     attach_to |-> att, attach_device |-> dev, export_to |-> exp,
     import_from |-> imp, target_pool |-> tp, target_volume |-> tv, move |-> mv]

NoSource == [kind |-> "none", doc |-> Doc(None, NoMap, NoMap)]

\* argument_spec of incus_profile: state in present, absent.  The parameters
\* are read on the present path only.
ProfileRequests ==
    {Request("profile", "present", chk, src, d, c, v, "", "", "", "", "", "", "", FALSE) :
        chk \in BOOLEAN, src \in Sources, d \in ParamDescriptions,
        c \in ParamConfigs, v \in ParamDevices}
    \cup
    {Request("profile", "absent", chk, NoSource, None, NoMap, NoMap,
             "", "", "", "", "", "", "", FALSE) : chk \in BOOLEAN}

\* --------------------------------------------------- Desired-State Builder
\* IncusProfile.load_source: [ok, doc]; not ok is fail_json.
load_source(source) ==
    IF source.kind = "none" THEN [ok |-> TRUE, doc |-> Doc(None, NoMap, NoMap)]
    ELSE IF source.kind = "missing" THEN [ok |-> FALSE, doc |-> Doc(None, NoMap, NoMap)]
    ELSE IF source.kind = "unreadable" THEN [ok |-> FALSE, doc |-> Doc(None, NoMap, NoMap)]
    ELSE [ok |-> TRUE, doc |-> source.doc]

\* the loop "for k, v in self.config.items()" of get_desired_state
RECURSIVE MergeConfig(_, _, _)
RECURSIVE MergeConfig_NoStr(_, _, _)
RECURSIVE MergeConfig_KeepNull(_, _, _)
MergeConfig_NoStr(base, params, todo) ==
    IF todo = {} THEN base
    ELSE LET k == CHOOSE x \in todo : TRUE
             v == params[k]
             next == IF v = None
                     THEN (IF k \in DOMAIN base THEN Del(base, k) ELSE base)
                     ELSE Put(base, k, v)
         IN MergeConfig_NoStr(next, params, todo \ {k})

MergeConfig_KeepNull(base, params, todo) ==
    IF todo = {} THEN base
    ELSE LET k == CHOOSE x \in todo : TRUE
             v == params[k]
             next == IF v = None THEN base ELSE Put(base, k, PyStr(v))
         IN MergeConfig_KeepNull(next, params, todo \ {k})

MergeConfig(base, params, todo) ==
    IF todo = {} THEN base
    ELSE LET k == CHOOSE x \in todo : TRUE
             v == params[k]
             next == IF v = None
                     THEN (IF k \in DOMAIN base THEN Del(base, k) ELSE base)
                     ELSE Put(base, k, PyStr(v))
         IN MergeConfig(next, params, todo \ {k})

\* the loop "for k, v in self.devices.items()" of get_desired_state
RECURSIVE MergeDevices(_, _, _)
RECURSIVE MergeDevices_Union(_, _, _)
MergeDevices_Union(base, params, todo) ==
    IF todo = {} THEN base
    ELSE LET k == CHOOSE x \in todo : TRUE
             v == IF k \in DOMAIN base THEN params[k] @@ base[k] ELSE params[k]
         IN MergeDevices_Union(Put(base, k, v), params, todo \ {k})

MergeDevices(base, params, todo) ==
    IF todo = {} THEN base
    ELSE LET k == CHOOSE x \in todo : TRUE
         IN MergeDevices(Put(base, k, params[k]), params, todo \ {k})

Skeleton == Doc(S(""), Some(EmptyMap), Some(EmptyMap))

DesiredBase_Fresh(params, current_profile) ==
    IF params.source.kind = "none" THEN Skeleton
    ELSE load_source(params.source).doc

\* The base the parameters are merged into.  current_profile is [some, doc];
\* not some is Python's None (or any falsy value).
DesiredBase(params, current_profile) ==
    IF params.source.kind = "none" /\ current_profile.some
        THEN current_profile.doc
    ELSE IF params.source.kind = "none" /\ ~current_profile.some
        THEN Skeleton
    ELSE load_source(params.source).doc

\* IncusProfile.get_desired_state, for a source that load_source accepts.
get_desired_state(params, current_profile) ==
    LET base == DesiredBase(params, current_profile)
        d1 == IF params.description # None
              THEN [base EXCEPT !.description = params.description]
              ELSE base
        d2 == IF params.config.some
              THEN LET c0 == IF d1.config.some THEN d1.config.m ELSE EmptyMap
                   IN [d1 EXCEPT !.config =
                          Some(MergeConfig(c0, params.config.m, DOMAIN params.config.m))]
              ELSE d1
        d3 == IF params.devices.some
              THEN LET v0 == IF d2.devices.some THEN d2.devices.m ELSE EmptyMap
                   IN [d2 EXCEPT !.devices =
                          Some(MergeDevices(v0, params.devices.m, DOMAIN params.devices.m))]
              ELSE d2
    IN d3

BaseSharesCurrent_NoCopy(params, current_profile) ==
    params.source.kind = "none" /\ current_profile.some

\* the base is the very object current_profile: never, the live state is
\* taken by copy.deepcopy, the other two bases are new objects
BaseSharesCurrent(params, current_profile) == FALSE

\* the object "current" of update as it is once get_desired_state has
\* returned: the merges write into the base
current_after(params, current_profile) ==
    IF BaseSharesCurrent(params, current_profile)
    THEN [some |-> TRUE, doc |-> get_desired_state(params, current_profile)]
    ELSE current_profile

\* ------------------------------------------------------------ State Differ
\* the three comparisons of IncusProfile.update
ProfileDiffers(current, desired) ==
    \/ current.description # desired.description
    \/ current.config # desired.config
    \/ current.devices # desired.devices

\* ------------------------------------------------------------------ state
VARIABLES
    profile,        \* external system: the profile, [ex, doc]
    volume,         \* external system: the volume, [ex, config]
    snapshots,      \* external system: names of the volume's snapshots
    inst_devices,   \* external system: device names of the instance attach_to
    others,         \* external system: export file, copy/move target volume
    pc,             \* per run: the Gateway call the run is about to issue
    params,         \* per run: module.params and module.check_mode
    current,        \* per run: what the State Reader returned, [some, doc]
    desired,        \* per run: get_desired_state's result
    new_create,     \* per run: update(new_create=...)
    changed,        \* per run: the local "changed" of update
    todo,           \* per run: config keys update still has to set
    calls,          \* per run: the Gateway calls issued so far
    result,         \* per run: exit_json / fail_json, [status, msg]
    glitch          \* per run: number of failed reads of an existing resource

ext == <<profile, volume, snapshots, inst_devices, others>>
locals == <<current, desired, new_create, changed, todo>>
vars == <<profile, volume, snapshots, inst_devices, others, pc, params, current,
          desired, new_create, changed, todo, calls, result, glitch>>

\* ---------------------------------------------------------------- Gateway
ReadOnly == {"profile show", "volume show", "snapshot show",
             "config device list", "config show"}

Call(cmd, args, rc) == [cmd |-> cmd, args |-> args, rc |-> rc]

IsMutating(c) == c.cmd \notin ReadOnly

MutatingCalls(r) == {i \in 1..Len(calls[r]) : IsMutating(calls[r][i])}

\* What a show query of an existing resource can give: the resource, a
\* non-zero exit status, an empty document, or text that is not YAML.
ReadKinds == {"faithful", "rcfail", "empty", "malformed"}

ReadsOf(r, exists) ==
    IF exists /\ glitch[r] < MaxGlitches THEN ReadKinds ELSE {"faithful"}

ReadRc(exists, kind) == IF exists /\ kind # "rcfail" THEN 0 ELSE 1

NoDoc == [some |-> FALSE, doc |-> Doc(None, NoMap, NoMap)]

\* exit_json(changed=...) and fail_json(...) end the process; a step is
\* either such an end or the next Gateway call of the run
NoResult == [status |-> "none", msg |-> ""]

Stop(status, msg) == [pc |-> "done", status |-> status, msg |-> msg]

Continue(label) == [pc |-> label, status |-> "none", msg |-> ""]

Take(r, step) ==
    /\ pc' = [pc EXCEPT ![r] = step.pc]
    /\ result' = [result EXCEPT ![r] =
                    IF step.pc = "done"
                    THEN [status |-> step.status, msg |-> step.msg]
                    ELSE @]

Exit(r, status, msg) == Take(r, Stop(status, msg))

Goto(r, label) == Take(r, Continue(label))

Log(r, c) == calls' = [calls EXCEPT ![r] = Append(@, c)]

Noted(r, kind) ==
    glitch' = [glitch EXCEPT ![r] = IF kind # "faithful" THEN @ + 1 ELSE @]

\* the Outcome of the spec's data model
Outcome(r) ==
    IF result[r].status = "changed"
        THEN (IF params[r].check_mode THEN "WouldChange" ELSE "Changed")
    ELSE IF result[r].status = "unchanged" THEN "NoChange"
    ELSE IF result[r].status = "failed" THEN "Failed"
    ELSE result[r].status

\* ---------------------------------------------------------------- profile
\* IncusProfile.get_profile: None unless rc == 0 and the output parses
get_profile(kind) ==
    IF profile.ex /\ kind = "faithful"
    THEN [some |-> TRUE, doc |-> profile.doc]
    ELSE NoDoc

\* what "profile edit" stores for the document it is fed
Edited(doc) ==
    Doc(IF doc.description = None THEN S("") ELSE PyStr(doc.description),
        Some([k \in DOMAIN doc.config.m |-> PyStr(doc.config.m[k])]),
        Some(doc.devices.m))

\* IncusProfile.delete up to its command
delete_profile(p) ==
    IF p.check_mode
    THEN Stop("changed", "Profile would be deleted")
    ELSE Continue("p_delete")

\* IncusProfile.run after get_profile: the dispatch on state
profile_run(p, prof) ==
    IF p.state = "present"
    THEN IF ~prof.some
         THEN IF p.check_mode
              THEN Stop("changed", "Profile would be created")
              ELSE Continue("p_create")
         ELSE Continue("p_update")
    ELSE IF prof.some
         THEN delete_profile(p)
         ELSE Stop("unchanged", "Profile not found")

\* IncusProfile.run: get_profile, then the dispatch
ProfileShow(r) ==
    /\ pc[r] = "p_show"
    /\ \E kind \in ReadsOf(r, profile.ex) :
        /\ Log(r, Call("profile show", {}, ReadRc(profile.ex, kind)))
        /\ Noted(r, kind)
        /\ current' = [current EXCEPT ![r] = get_profile(kind)]
        /\ Take(r, profile_run(params[r], get_profile(kind)))
    /\ UNCHANGED <<ext, params, desired, new_create, changed, todo>>

\* IncusProfile.create: "profile create", then update(new_create=True)
ProfileCreate(r) ==
    /\ pc[r] = "p_create"
    /\ \E ok \in BOOLEAN :
        /\ ok => ~profile.ex
        /\ Log(r, Call("profile create", {}, IF ok THEN 0 ELSE 1))
        /\ IF ok
           THEN /\ profile' = [ex |-> TRUE, doc |-> Skeleton]
                /\ new_create' = [new_create EXCEPT ![r] = TRUE]
                /\ Goto(r, "p_update")
           ELSE /\ Exit(r, "failed", "Failed to create profile")
                /\ UNCHANGED <<profile, new_create>>
    /\ UNCHANGED <<volume, snapshots, inst_devices, others, params, current,
                   desired, changed, todo, glitch>>

profile_update_NoForce(p, cur, created) ==
    IF ~cur.some
    THEN Stop("failed", "Profile not found for update")
    ELSE IF ~load_source(p.source).ok
    THEN Stop("failed", "Source file not found or unreadable")
    ELSE IF ~ProfileDiffers(current_after(p, cur).doc, get_desired_state(p, cur))
    THEN Stop("unchanged", "Profile matches configuration")
    ELSE IF p.check_mode
    THEN Stop("changed", "Profile would be updated")
    ELSE Continue("p_edit")

\* IncusProfile.update after get_profile, up to the edit command:
\* get_desired_state, the comparison, the check_mode exit
profile_update(p, cur, created) ==
    IF ~cur.some
    THEN Stop("failed", "Profile not found for update")
    ELSE IF ~load_source(p.source).ok
    THEN Stop("failed", "Source file not found or unreadable")
    ELSE IF ~ProfileDiffers(current_after(p, cur).doc, get_desired_state(p, cur))
            /\ ~created
    THEN Stop("unchanged", "Profile matches configuration")
    ELSE IF p.check_mode
    THEN Stop("changed", "Profile would be updated")
    ELSE Continue("p_edit")

\* IncusProfile.update: get_profile and the code up to the edit command
ProfileUpdate(r) ==
    /\ pc[r] = "p_update"
    /\ \E kind \in ReadsOf(r, profile.ex) :
        LET cur == get_profile(kind) IN
        /\ Log(r, Call("profile show", {}, ReadRc(profile.ex, kind)))
        /\ Noted(r, kind)
        /\ current' = [current EXCEPT ![r] =
                          IF cur.some /\ load_source(params[r].source).ok
                          THEN current_after(params[r], cur)
                          ELSE cur]
        /\ desired' = [desired EXCEPT ![r] =
                          IF cur.some /\ load_source(params[r].source).ok
                          THEN get_desired_state(params[r], cur)
                          ELSE @]
        /\ Take(r, profile_update(params[r], cur, new_create[r]))
    /\ UNCHANGED <<ext, params, new_create, changed, todo>>

\* IncusProfile.update: "profile edit" fed with yaml.dump(desired)
ProfileEdit(r) ==
    /\ pc[r] = "p_edit"
    /\ \E ok \in BOOLEAN :
        /\ ok => profile.ex
        /\ Log(r, Call("profile edit", {}, IF ok THEN 0 ELSE 1))
        /\ IF ok
           THEN /\ profile' = [ex |-> TRUE, doc |-> Edited(desired[r])]
                /\ Exit(r, "changed", "Profile updated")
           ELSE /\ Exit(r, "failed", "Failed to update profile")
                /\ UNCHANGED profile
    /\ UNCHANGED <<volume, snapshots, inst_devices, others, params, locals, glitch>>

\* IncusProfile.delete: "profile delete"
ProfileDelete(r) ==
    /\ pc[r] = "p_delete"
    /\ \E ok \in BOOLEAN :
        /\ ok => profile.ex
        /\ Log(r, Call("profile delete", {}, IF ok THEN 0 ELSE 1))
        /\ IF ok
           THEN /\ profile' = [ex |-> FALSE, doc |-> Skeleton]
                /\ Exit(r, "changed", "Profile deleted")
           ELSE /\ Exit(r, "failed", "Failed to delete profile")
                /\ UNCHANGED profile
    /\ UNCHANGED <<volume, snapshots, inst_devices, others, params, locals, glitch>>

\* ----------------------------------------------------------------- volume
VolName == "vol1"

\* argument_spec of incus_storage_volume.  Each mode is enumerated with the
\* parameters its code path reads.
Attachments == {<<"", "">>, <<"i1", "">>, <<"i1", "d1">>}

\* a config of more keys than the two of ParamConfigs, none of which a live
\* volume has
WideConfig == Some([a |-> I("1"), b |-> I("1"), c |-> I("1")])

VolumeRequests ==
    {Request("volume", "present", chk, NoSource, d, c, NoMap, snap, a[1], a[2],
             "", "", "", "", FALSE) :
        chk \in BOOLEAN, d \in ParamDescriptions,
        c \in ParamConfigs \cup {WideConfig},
        snap \in {"", "s1"}, a \in Attachments}
    \cup
    {Request("volume", st, chk, NoSource, None, NoMap, NoMap, snap, "", "",
             "", "", "", "", FALSE) :
        st \in {"absent", "restored"}, chk \in BOOLEAN, snap \in {"", "s1"}}
    \cup
    {Request("volume", "exported", chk, NoSource, None, NoMap, NoMap, "", "", "",
             exp, "", "", "", FALSE) :
        chk \in BOOLEAN, exp \in {"", "backup.tar"}}
    \cup
    {Request("volume", "imported", chk, NoSource, None, NoMap, NoMap, "", a[1], a[2],
             "", imp, "", "", FALSE) :
        chk \in BOOLEAN, imp \in {"", "backup.tar"}, a \in Attachments}
    \cup
    {Request("volume", "copied", chk, NoSource, None, NoMap, NoMap, "", "", "",
             "", "", tp, tv, mv) :
        chk \in BOOLEAN, tp \in {"", "pool2"}, tv \in {"", "vol2"}, mv \in BOOLEAN}

\* self.attach_device = module.params['attach_device'] or self.name
attach_device(p) == IF p.attach_device # "" THEN p.attach_device ELSE VolName

\* IncusStorageVolume.get_volume_info: None unless rc == 0; an output that
\* is not YAML raises (only ImportError is caught)
get_volume_info(kind) ==
    IF volume.ex /\ kind = "faithful"
    THEN [some |-> TRUE, doc |-> Doc(volume.description, Some(volume.config), NoMap)]
    ELSE NoDoc

\* the "key=value" arguments of create: "{}={}".format(k, v) for every item
ConfigArgs(p) ==
    IF p.config.some
    THEN {<<k, PyStr(p.config.m[k]).v>> : k \in DOMAIN p.config.m}
    ELSE {}

ChangedKeys_NoStr(p, current_info) ==
    IF p.config.some /\ DOMAIN p.config.m # {}
    THEN {k \in DOMAIN p.config.m :
            Get(current_info.config.m, k, S("")) # p.config.m[k]}
    ELSE {}

ChangedKeys_SkipMissing(p, current_info) ==
    IF p.config.some /\ DOMAIN p.config.m # {}
    THEN {k \in DOMAIN p.config.m \cap DOMAIN current_info.config.m :
            PyStr(current_info.config.m[k]) # PyStr(p.config.m[k])}
    ELSE {}

\* the keys for which update issues a set command:
\* str(current_config.get(k, '')) != str(v)
ChangedKeys(p, current_info) ==
    IF p.config.some /\ DOMAIN p.config.m # {}
    THEN {k \in DOMAIN p.config.m :
            PyStr(Get(current_info.config.m, k, S(""))) # PyStr(p.config.m[k])}
    ELSE {}

\* IncusStorageVolume.attach_volume up to its command: in check mode it
\* returns at once and update goes on to report the change
attach_volume(p) ==
    IF p.check_mode
    THEN Stop("changed", "Attached to instance")
    ELSE Continue("v_attach")

\* update after the config loop: the attachment check or the exit
after_config(p, chg) ==
    IF p.attach_to # ""
    THEN Continue("v_devlist")
    ELSE IF chg
    THEN Stop("changed", "Updated config")
    ELSE Stop("unchanged", "Storage volume matches configuration")

after_attach_check_Touched(p, is_attached, chg) ==
    IF ~is_attached
    THEN attach_volume(p)
    ELSE Stop("changed", "Updated config")

\* update after check_if_attached
after_attach_check(p, is_attached, chg) ==
    IF ~is_attached
    THEN attach_volume(p)
    ELSE IF chg
    THEN Stop("changed", "Updated config")
    ELSE Stop("unchanged", "Storage volume matches configuration")

KeysToSet_Unguarded(p, current_info) == ChangedKeys(p, current_info)

KeysToSet_AllKeys(p, current_info) ==
    IF p.check_mode \/ ~p.config.some THEN {} ELSE DOMAIN p.config.m

\* the keys update issues a set command for: none in check mode
KeysToSet(p, current_info) ==
    IF p.check_mode THEN {} ELSE ChangedKeys(p, current_info)

\* IncusStorageVolume.update up to its first Gateway call
update(p, current_info) ==
    IF KeysToSet(p, current_info) # {}
    THEN Continue("v_set")
    ELSE after_config(p, ChangedKeys(p, current_info) # {})

\* create, import_volume after their command succeeded: attach or exit
after_made(p, msg) ==
    IF p.attach_to # ""
    THEN Continue("v_attach")
    ELSE Stop("changed", msg)

\* IncusStorageVolume.create without a snapshot name, up to the command
create_volume(p) ==
    IF p.check_mode
    THEN Stop("changed", "Storage volume would be created")
    ELSE Continue("v_create")

\* IncusStorageVolume.create with a snapshot name, after snapshot_exists
create_snapshot(p, exists) ==
    IF exists
    THEN Stop("unchanged", "Snapshot already exists")
    ELSE IF p.check_mode
    THEN Stop("changed", "Snapshot would be created")
    ELSE Continue("v_snapcreate")

\* IncusStorageVolume.create up to its first Gateway call
create(p) ==
    IF p.snapshot # "" THEN Continue("v_snapshow") ELSE create_volume(p)

\* IncusStorageVolume.delete with a snapshot name, after snapshot_exists
delete_snapshot(p, exists) ==
    IF ~exists
    THEN Stop("unchanged", "Snapshot not found")
    ELSE IF p.check_mode
    THEN Stop("changed", "Snapshot would be deleted")
    ELSE Continue("v_snapdelete")

delete_IgnoreSnapshot(p) ==
    IF p.check_mode
    THEN Stop("changed", "Storage volume would be deleted")
    ELSE Continue("v_delete")

\* IncusStorageVolume.delete up to its first Gateway call
delete(p) ==
    IF p.snapshot # ""
    THEN Continue("v_snapshow")
    ELSE IF p.check_mode
    THEN Stop("changed", "Storage volume would be deleted")
    ELSE Continue("v_delete")

\* IncusStorageVolume.restore up to its first Gateway call
restore(p) ==
    IF p.snapshot = ""
    THEN Stop("failed", "'snapshot' is required for state=restored")
    ELSE Continue("v_snapshow")

restore_snapshot_Unchecked(p, exists) ==
    IF p.check_mode
    THEN Stop("changed", "Snapshot would be restored")
    ELSE Continue("v_restore")

\* IncusStorageVolume.restore after snapshot_exists
restore_snapshot(p, exists) ==
    IF ~exists
    THEN Stop("failed", "Snapshot not found")
    ELSE IF p.check_mode
    THEN Stop("changed", "Snapshot would be restored")
    ELSE Continue("v_restore")

\* IncusStorageVolume.export_volume up to its command
export_volume(p) ==
    IF p.export_to = ""
    THEN Stop("failed", "'export_to' is required for state=exported")
    ELSE IF p.check_mode
    THEN Stop("changed", "Volume would be exported")
    ELSE Continue("v_export")

\* IncusStorageVolume.import_volume up to its command
import_volume(p) ==
    IF p.import_from = ""
    THEN Stop("failed", "'import_from' is required for state=imported")
    ELSE IF p.check_mode
    THEN Stop("changed", "Volume would be imported")
    ELSE Continue("v_import")

\* IncusStorageVolume.copy_move up to its command
copy_move(p) ==
    IF p.target_pool = ""
    THEN Stop("failed", "'target_pool' is required for state=copied")
    ELSE IF p.target_volume = ""
    THEN Stop("failed", "'target_volume' is required for state=copied")
    ELSE IF p.check_mode
    THEN Stop("changed", "Volume would be copied or moved")
    ELSE Continue("v_copy")

copied_Unchecked(p, current_info) == copy_move(p)

\* IncusStorageVolume.run for state=copied, after get_volume_info
copied(p, current_info) ==
    IF ~current_info.some
    THEN Stop("failed", "Source volume not found")
    ELSE copy_move(p)

\* IncusStorageVolume.run for state=present, after get_volume_info
present(p, current_info) ==
    IF ~current_info.some /\ p.snapshot = ""
    THEN create(p)
    ELSE IF current_info.some /\ p.snapshot # ""
    THEN create(p)
    ELSE IF current_info.some /\ p.snapshot = ""
    THEN update(p, current_info.doc)
    ELSE Stop("failed", "Volume does not exist")

\* IncusStorageVolume.run after get_volume_info: the dispatch on state
volume_run(p, current_info) ==
    IF p.state = "present" THEN present(p, current_info)
    ELSE IF p.state = "absent"
    THEN IF current_info.some
         THEN delete(p)
         ELSE Stop("unchanged", "Volume/Snapshot not found")
    ELSE IF p.state = "restored" THEN restore(p)
    ELSE IF p.state = "exported" THEN export_volume(p)
    ELSE copied(p, current_info)

\* IncusStorageVolume.run: get_volume_info, then the dispatch up to the next
\* Gateway call; update's "changed" and the keys it has to set
VolumeShow(r) ==
    /\ pc[r] = "v_show"
    /\ \E kind \in ReadsOf(r, volume.ex) :
        LET info == get_volume_info(kind)
            p == params[r]
            updating == p.state = "present" /\ info.some /\ p.snapshot = ""
        IN
        /\ Log(r, Call("volume show", {}, ReadRc(volume.ex, kind)))
        /\ Noted(r, kind)
        /\ current' = [current EXCEPT ![r] = info]
        /\ IF volume.ex /\ kind = "malformed"
           THEN /\ Exit(r, "crashed", "yaml.YAMLError")
                /\ UNCHANGED <<changed, todo>>
           ELSE /\ Take(r, volume_run(p, info))
                /\ todo' = [todo EXCEPT ![r] =
                              IF updating THEN KeysToSet(p, info.doc) ELSE {}]
                /\ changed' = [changed EXCEPT ![r] =
                                  updating /\ p.check_mode
                                  /\ ChangedKeys(p, info.doc) # {}]
    /\ UNCHANGED <<ext, params, desired, new_create>>

\* exit status of "storage volume show <pool> <volume>/<snapshot>"
SnapshotShowRc(p, kind) ==
    IF volume.ex /\ p.snapshot \in snapshots /\ kind = "faithful" THEN 0 ELSE 1

snapshot_exists_Negated(rc) == rc # 0

\* IncusStorageVolume.snapshot_exists: rc == 0
snapshot_exists(rc) == rc = 0

after_snapshot_exists_Swapped(p, exists) ==
    IF p.state = "present" THEN create_snapshot(p, exists)
    ELSE IF p.state = "restored" THEN delete_snapshot(p, exists)
    ELSE restore_snapshot(p, exists)

\* create, delete and restore after snapshot_exists
after_snapshot_exists(p, exists) ==
    IF p.state = "present" THEN create_snapshot(p, exists)
    ELSE IF p.state = "absent" THEN delete_snapshot(p, exists)
    ELSE restore_snapshot(p, exists)

\* snapshot_exists and the code of its caller up to the snapshot command
SnapshotShow(r) ==
    /\ pc[r] = "v_snapshow"
    /\ \E kind \in ReadsOf(r, volume.ex /\ params[r].snapshot \in snapshots)
                   \ {"empty", "malformed"} :
        LET rc == SnapshotShowRc(params[r], kind) IN
        /\ Log(r, Call("snapshot show", {}, rc))
        /\ Noted(r, kind)
        /\ Take(r, after_snapshot_exists(params[r], snapshot_exists(rc)))
    /\ UNCHANGED <<ext, params, locals>>

Rc(ok) == IF ok THEN 0 ELSE 1

NoVolume == [ex |-> FALSE, description |-> S(""), config |-> EmptyMap]

\* IncusStorageVolume.create, volume part: "storage volume create"
VolumeCreate(r) ==
    /\ pc[r] = "v_create"
    /\ \E ok \in BOOLEAN :
        LET p == params[r] IN
        /\ ok => ~volume.ex
        /\ Log(r, Call("volume create", ConfigArgs(p), Rc(ok)))
        /\ IF ok
           THEN /\ volume' =
                     [ex |-> TRUE,
                      description |-> IF p.description \notin {None, S("")}
                                      THEN p.description ELSE S(""),
                      config |-> [k \in {a[1] : a \in ConfigArgs(p)} |->
                                     PyStr(p.config.m[k])]]
                /\ Take(r, after_made(p, "Storage volume created"))
           ELSE /\ Exit(r, "failed", "Failed to create storage volume")
                /\ UNCHANGED volume
    /\ UNCHANGED <<profile, snapshots, inst_devices, others, params, locals, glitch>>

\* IncusStorageVolume.create, snapshot part: "storage volume snapshot create"
SnapshotCreate(r) ==
    /\ pc[r] = "v_snapcreate"
    /\ \E ok \in BOOLEAN :
        /\ ok => volume.ex /\ params[r].snapshot \notin snapshots
        /\ Log(r, Call("snapshot create", {}, Rc(ok)))
        /\ IF ok
           THEN /\ snapshots' = snapshots \cup {params[r].snapshot}
                /\ Exit(r, "changed", "Snapshot created")
           ELSE /\ Exit(r, "failed", "Failed to create snapshot")
                /\ UNCHANGED snapshots
    /\ UNCHANGED <<profile, volume, inst_devices, others, params, locals, glitch>>

VolumeSet_NoRcCheck(r) ==
    /\ pc[r] = "v_set"
    /\ \E k \in todo[r], ok \in BOOLEAN :
        LET v == PyStr(params[r].config.m[k]) IN
        /\ ok => volume.ex
        /\ Log(r, Call("volume set", {<<k, v.v>>}, Rc(ok)))
        /\ volume' = IF ok THEN [volume EXCEPT !.config = Put(@, k, v)] ELSE volume
        /\ changed' = [changed EXCEPT ![r] = TRUE]
        /\ todo' = [todo EXCEPT ![r] = @ \ {k}]
        /\ IF todo[r] = {k}
           THEN Take(r, after_config(params[r], TRUE))
           ELSE Goto(r, "v_set")
    /\ UNCHANGED <<profile, snapshots, inst_devices, others, params, current,
                   desired, new_create, glitch>>

\* IncusStorageVolume.update: one "storage volume set k=v" of the config loop
VolumeSet(r) ==
    /\ pc[r] = "v_set"
    /\ \E k \in todo[r], ok \in BOOLEAN :
        LET v == PyStr(params[r].config.m[k]) IN
        /\ ok => volume.ex
        /\ Log(r, Call("volume set", {<<k, v.v>>}, Rc(ok)))
        /\ IF ok
           THEN /\ volume' = [volume EXCEPT !.config = Put(@, k, v)]
                /\ changed' = [changed EXCEPT ![r] = TRUE]
                /\ todo' = [todo EXCEPT ![r] = @ \ {k}]
                /\ IF todo[r] = {k}
                   THEN Take(r, after_config(params[r], TRUE))
                   ELSE Goto(r, "v_set")
           ELSE /\ Exit(r, "failed", "Failed to set volume config")
                /\ UNCHANGED <<volume, changed, todo>>
    /\ UNCHANGED <<profile, snapshots, inst_devices, others, params, current,
                   desired, new_create, glitch>>

\* IncusStorageVolume.check_if_attached: "config device list", whose output
\* is not used
DeviceList(r) ==
    /\ pc[r] = "v_devlist"
    /\ Log(r, Call("config device list", {}, 0))
    /\ Goto(r, "v_cfgshow")
    /\ UNCHANGED <<ext, params, locals, glitch>>

\* IncusStorageVolume.check_if_attached after "config show": the device
\* name is among the instance's devices
check_if_attached(p, kind) ==
    kind = "faithful" /\ attach_device(p) \in inst_devices

\* check_if_attached: "config show", then update's use of the answer.  An
\* output that is empty or not YAML raises (only ImportError is caught).
ConfigShow(r) ==
    /\ pc[r] = "v_cfgshow"
    /\ \E kind \in ReadsOf(r, TRUE) :
        LET is_attached == check_if_attached(params[r], kind)
            step == after_attach_check(params[r], is_attached, changed[r])
        IN
        /\ Log(r, Call("config show", {}, ReadRc(TRUE, kind)))
        /\ Noted(r, kind)
        /\ IF kind = "malformed"
           THEN /\ Exit(r, "crashed", "yaml.YAMLError")
                /\ UNCHANGED changed
           ELSE IF kind = "empty"
           THEN /\ Exit(r, "crashed", "AttributeError")
                /\ UNCHANGED changed
           ELSE /\ Take(r, step)
                /\ changed' = [changed EXCEPT ![r] =
                                  @ \/ (~is_attached /\ step.pc = "done")]
    /\ UNCHANGED <<ext, params, current, desired, new_create, todo>>

\* IncusStorageVolume.attach_volume: "storage volume attach", then the exit
\* of its caller (create, import_volume or update)
VolumeAttach(r) ==
    /\ pc[r] = "v_attach"
    /\ \E ok \in BOOLEAN :
        /\ ok => volume.ex /\ attach_device(params[r]) \notin inst_devices
        /\ Log(r, Call("volume attach", {}, Rc(ok)))
        /\ IF ok
           THEN /\ inst_devices' = inst_devices \cup {attach_device(params[r])}
                /\ changed' = [changed EXCEPT ![r] = TRUE]
                /\ Exit(r, "changed", "Attached to instance")
           ELSE /\ Exit(r, "failed", "Failed to attach volume")
                /\ UNCHANGED <<inst_devices, changed>>
    /\ UNCHANGED <<profile, volume, snapshots, others, params, current, desired,
                   new_create, todo, glitch>>

\* IncusStorageVolume.delete, snapshot part
SnapshotDelete(r) ==
    /\ pc[r] = "v_snapdelete"
    /\ \E ok \in BOOLEAN :
        /\ ok => volume.ex /\ params[r].snapshot \in snapshots
        /\ Log(r, Call("snapshot delete", {}, Rc(ok)))
        /\ IF ok
           THEN /\ snapshots' = snapshots \ {params[r].snapshot}
                /\ Exit(r, "changed", "Snapshot deleted")
           ELSE /\ Exit(r, "failed", "Failed to delete snapshot")
                /\ UNCHANGED snapshots
    /\ UNCHANGED <<profile, volume, inst_devices, others, params, locals, glitch>>

\* IncusStorageVolume.delete, volume part
VolumeDelete(r) ==
    /\ pc[r] = "v_delete"
    /\ \E ok \in BOOLEAN :
        /\ ok => volume.ex
        /\ Log(r, Call("volume delete", {}, Rc(ok)))
        /\ IF ok
           THEN /\ volume' = NoVolume
                /\ snapshots' = {}
                /\ Exit(r, "changed", "Storage volume deleted")
           ELSE /\ Exit(r, "failed", "Failed to delete storage volume")
                /\ UNCHANGED <<volume, snapshots>>
    /\ UNCHANGED <<profile, inst_devices, others, params, locals, glitch>>

\* IncusStorageVolume.restore: "storage volume snapshot restore"
SnapshotRestore(r) ==
    /\ pc[r] = "v_restore"
    /\ \E ok \in BOOLEAN :
        /\ ok => volume.ex /\ params[r].snapshot \in snapshots
        /\ Log(r, Call("snapshot restore", {}, Rc(ok)))
        /\ IF ok
           THEN /\ others' = [others EXCEPT !.restores = TRUE]
                /\ Exit(r, "changed", "Snapshot restored")
           ELSE /\ Exit(r, "failed", "Failed to restore snapshot")
                /\ UNCHANGED others
    /\ UNCHANGED <<profile, volume, snapshots, inst_devices, params, locals, glitch>>

\* IncusStorageVolume.export_volume: "storage volume export"
VolumeExport(r) ==
    /\ pc[r] = "v_export"
    /\ \E ok \in BOOLEAN :
        /\ ok => volume.ex
        /\ Log(r, Call("volume export", {}, Rc(ok)))
        /\ IF ok
           THEN /\ others' = [others EXCEPT !.exported = TRUE]
                /\ Exit(r, "changed", "Volume exported")
           ELSE /\ Exit(r, "failed", "Failed to export volume")
                /\ UNCHANGED others
    /\ UNCHANGED <<profile, volume, snapshots, inst_devices, params, locals, glitch>>

\* IncusStorageVolume.import_volume: "storage volume import"
VolumeImport(r) ==
    /\ pc[r] = "v_import"
    /\ \E ok \in BOOLEAN :
        /\ ok => ~volume.ex
        /\ Log(r, Call("volume import", {}, Rc(ok)))
        /\ IF ok
           THEN /\ volume' = [ex |-> TRUE, description |-> S(""), config |-> EmptyMap]
                /\ Take(r, after_made(params[r], "Volume imported"))
           ELSE /\ Exit(r, "failed", "Failed to import volume")
                /\ UNCHANGED volume
    /\ UNCHANGED <<profile, snapshots, inst_devices, others, params, locals, glitch>>

\* IncusStorageVolume.copy_move: "storage volume copy" or "move"
VolumeCopy(r) ==
    /\ pc[r] = "v_copy"
    /\ \E ok \in BOOLEAN :
        LET op == IF params[r].move THEN "volume move" ELSE "volume copy" IN
        /\ ok => volume.ex /\ ~others.target
        /\ Log(r, Call(op, {}, Rc(ok)))
        /\ IF ok
           THEN /\ others' = [others EXCEPT !.target = TRUE]
                /\ volume' = IF params[r].move THEN NoVolume ELSE volume
                /\ snapshots' = IF params[r].move THEN {} ELSE snapshots
                /\ Exit(r, "changed", "Volume copied or moved")
           ELSE /\ Exit(r, "failed", "Failed to copy or move volume")
                /\ UNCHANGED <<volume, snapshots, others>>
    /\ UNCHANGED <<profile, inst_devices, params, locals, glitch>>

\* ---------------------------------------------------------------- harness
Requests == ProfileRequests \cup VolumeRequests

IdleRequest == Request("none", "present", FALSE, NoSource, None, NoMap, NoMap,
                       "", "", "", "", "", "", "", FALSE)

\* run r+1 is the request of run r, in check mode or not
Rerun(p) == {[p EXCEPT !.check_mode = chk] : chk \in BOOLEAN}

\* every command of run r succeeded and every read told the truth
AllOk(r) ==
    /\ glitch[r] = 0
    /\ \A i \in MutatingCalls(r) : calls[r][i].rc = 0

\* run r is over and the request is repeated only after a run that went well
Clean(r) == pc[r] = "done" /\ AllOk(r) /\ result[r].status # "crashed"

\* main() of either module up to the first Gateway call: a profile run and
\* every volume run but state=imported begin with the show query;
\* import_volume validates and honours check mode first.  The two modules
\* never touch each other's resources: a run is started where the other
\* module's resources are absent.
Start(r) ==
    /\ pc[r] = "idle"
    /\ r > 1 => Clean(r - 1)
    /\ \E p \in (IF r = 1 THEN Requests ELSE Rerun(params[r - 1])) :
        /\ p.kind = "profile" => volume = NoVolume /\ inst_devices = {}
        /\ p.kind = "volume" => ~profile.ex
        /\ params' = [params EXCEPT ![r] = p]
        /\ IF p.kind = "profile"
           THEN Goto(r, "p_show")
           ELSE IF p.state = "imported"
           THEN Take(r, import_volume(p))
           ELSE Goto(r, "v_show")
    /\ UNCHANGED <<ext, locals, calls, glitch>>

LiveProfiles ==
    {[ex |-> FALSE, doc |-> Skeleton]}
    \cup {[ex |-> TRUE, doc |-> Doc(d, Some(c), Some(v))] :
            d \in LiveDescriptions, c \in LiveConfigs, v \in LiveDevices}

LiveVolumes ==
    {NoVolume}
    \cup {[ex |-> TRUE, description |-> d, config |-> c] :
            d \in LiveDescriptions, c \in LiveConfigs}

NoOthers == [exported |-> FALSE, target |-> FALSE, restores |-> FALSE]

Init ==
    /\ profile \in LiveProfiles
    /\ volume \in LiveVolumes
    /\ snapshots \in (IF volume.ex THEN SUBSET {"s1"} ELSE {{}})
    /\ inst_devices \in {{}, {VolName}, {"d1"}}
    /\ others = NoOthers
    /\ \/ profile = [ex |-> FALSE, doc |-> Skeleton]
       \/ volume = NoVolume /\ inst_devices = {}
    /\ pc = [r \in Runs |-> "idle"]
    /\ params = [r \in Runs |-> IdleRequest]
    /\ current = [r \in Runs |-> NoDoc]
    /\ desired = [r \in Runs |-> Doc(None, NoMap, NoMap)]
    /\ new_create = [r \in Runs |-> FALSE]
    /\ changed = [r \in Runs |-> FALSE]
    /\ todo = [r \in Runs |-> {}]
    /\ calls = [r \in Runs |-> <<>>]
    /\ result = [r \in Runs |-> NoResult]
    /\ glitch = [r \in Runs |-> 0]

Next ==
    \E r \in Runs :
        \/ Start(r)
        \/ ProfileShow(r)
        \/ ProfileCreate(r)
        \/ ProfileUpdate(r)
        \/ ProfileEdit(r)
        \/ ProfileDelete(r)
        \/ VolumeShow(r)
        \/ SnapshotShow(r)
        \/ VolumeCreate(r)
        \/ SnapshotCreate(r)
        \/ VolumeSet(r)
        \/ DeviceList(r)
        \/ ConfigShow(r)
        \/ VolumeAttach(r)
        \/ SnapshotDelete(r)
        \/ VolumeDelete(r)
        \/ SnapshotRestore(r)
        \/ VolumeExport(r)
        \/ VolumeImport(r)
        \/ VolumeCopy(r)

Spec == Init /\ [][Next]_vars

\* ---------------------------------------------- concurrent invocations
\* Nothing orders two invocations of the module: each is its own process,
\* and the steps of one interleave freely with the steps of another.  The
\* requests are real state=present profile requests without a declaration
\* file.
ConcRequests ==
    {Request("profile", "present", FALSE, NoSource, d, c, NoMap,
             "", "", "", "", "", "", "", FALSE) :
        d \in {None},
        c \in {Some([a |-> I("1")]), Some([b |-> I("1")]), Some([a |-> None])}}
    \cup
    {Request("profile", "present", FALSE, NoSource, S("d1"), NoMap, NoMap,
             "", "", "", "", "", "", "", FALSE)}

StartConc(r) ==
    /\ pc[r] = "idle"
    /\ \E p \in ConcRequests :
        /\ params' = [params EXCEPT ![r] = p]
        /\ Goto(r, "p_show")
    /\ UNCHANGED <<ext, locals, calls, glitch>>

InitConc == Init /\ volume = NoVolume /\ inst_devices = {}

ProfileStep(r) ==
    \/ ProfileShow(r)
    \/ ProfileCreate(r)
    \/ ProfileUpdate(r)
    \/ ProfileEdit(r)

NextConc == \E r \in Runs : StartConc(r) \/ ProfileStep(r)

SpecConc == InitConc /\ [][NextConc]_vars

\* ----------------------------------------------------------------- claims
Done(r) == pc[r] = "done"

\* every read of run r told the truth and the run did not crash
Truthful(r) == glitch[r] = 0 /\ result[r].status # "crashed"

\* run r was a real (not dry) run in which everything succeeded
RealOk(r) == Done(r) /\ ~params[r].check_mode /\ AllOk(r)

Count(r, cmd) == Cardinality({i \in 1..Len(calls[r]) : calls[r][i].cmd = cmd})

\* C1: a run in check mode issues no mutating Gateway call, and none of its
\* steps changes the external system (profile, volume, snapshots, instance
\* devices, export file, copy target).
C1_DryRunPurity ==
    [][\A r \in Runs :
          params'[r].kind # "none" /\ params'[r].check_mode
          => /\ \A i \in 1..Len(calls'[r]) : calls'[r][i].cmd \in ReadOnly
             /\ (pc'[r] # pc[r] => ext' = ext)]_vars

\* a dry run of a volume update that found config keys to change and the
\* volume not attached
C1_Witness ==
    \E r \in Runs :
        /\ Done(r) /\ params[r].check_mode /\ params[r].kind = "volume"
        /\ params[r].state = "present" /\ params[r].attach_to # ""
        /\ ChangedKeys(params[r], current[r].doc) # {}
        /\ result[r].msg = "Attached to instance"
        /\ Len(calls[r]) = 3

\* the first of two consecutive profile runs: a real state=present run in
\* which everything succeeded
FirstProfileRun(r, kinds) ==
    /\ r + 1 \in Runs
    /\ params[r].kind = "profile" /\ params[r].state = "present"
    /\ params[r].source.kind \in kinds
    /\ RealOk(r)

C3_SourceIdempotence ==
    \A r \in Runs :
        FirstProfileRun(r, {"file"}) /\ Truthful(r + 1) /\ Done(r + 1)
        => /\ result[r + 1].status = "unchanged"
           /\ Count(r + 1, "profile edit") = 0

\* the first of two consecutive volume runs: a real state=present run
\* without a snapshot name in which everything succeeded
FirstVolumeRun(r) ==
    /\ r + 1 \in Runs
    /\ params[r].kind = "volume" /\ params[r].state = "present"
    /\ params[r].snapshot = ""
    /\ RealOk(r)

\* C4: a real state=present run (no snapshot name) that finds the volume
\* absent issues exactly one create command, whose arguments hold k=str(v)
\* for every item of config, and reports Changed; the next run of the same
\* request (all reads truthful) issues no mutating call and reports NoChange.
C4_VolumeConvergence ==
    \A r \in Runs :
        FirstVolumeRun(r) /\ ~current[r].some
        => /\ Count(r, "volume create") = 1
           /\ \A i \in 1..Len(calls[r]) :
                 calls[r][i].cmd = "volume create"
                 => /\ params[r].config.some
                       => \A k \in DOMAIN params[r].config.m :
                             <<k, PyStr(params[r].config.m[k]).v>> \in calls[r][i].args
                    /\ calls[r][i].rc = 0
           /\ result[r].status = "changed"
           /\ Truthful(r + 1) => MutatingCalls(r + 1) = {}
           /\ Truthful(r + 1) /\ Done(r + 1) => result[r + 1].status = "unchanged"

\* the volume was created with a=1 and the real re-run found nothing to do
C4_Witness ==
    /\ FirstVolumeRun(1) /\ ~current[1].some
    /\ params[1].config = Some([a |-> I("1")])
    /\ \E i \in 1..Len(calls[1]) :
          calls[1][i].cmd = "volume create" /\ <<"a", "1">> \in calls[1][i].args
    /\ Done(2) /\ ~params[2].check_mode /\ result[2].status = "unchanged"
    /\ Len(calls[2]) = 1

\* the desired state of run r has been built by get_desired_state
Built(r) ==
    /\ params[r].kind = "profile"
    /\ \/ pc[r] = "p_edit"
       \/ Done(r) /\ result[r].msg \in {"Profile matches configuration",
                                         "Profile would be updated",
                                         "Profile updated",
                                         "Failed to update profile"}

BaseOf(r) == DesiredBase(params[r], current[r])

MapOf(field) == IF field.some THEN field.m ELSE EmptyMap

\* C5: with B the config of the base and P params.config, the desired
\* config D has no key that P maps to null, maps every other key of P to
\* the string of P's value, keeps every key of B that P does not mention
\* with B's value, and has no other key.
C5_MergeCorrectness ==
    \A r \in Runs :
        Built(r) /\ params[r].config.some
        => LET B == MapOf(BaseOf(r).config)
               P == params[r].config.m
               D == desired[r].config.m
           IN /\ desired[r].config.some
              /\ \A k \in DOMAIN P :
                    IF P[k] = None
                    THEN k \notin DOMAIN D
                    ELSE k \in DOMAIN D /\ D[k] = PyStr(P[k]) /\ D[k].t = "str"
              /\ \A k \in DOMAIN B \ DOMAIN P : k \in DOMAIN D /\ D[k] = B[k]
              /\ DOMAIN D \subseteq DOMAIN B \cup DOMAIN P

\* B = {a: "2", b: "2"}, P = {a: null, b: 1} gave D = {b: "1"}, and
\* B = {a: "2", b: "2"}, P = {a: 1} gave D = {a: "1", b: "2"}
C5_Witness ==
    \E r \in Runs :
        /\ Built(r) /\ params[r].config.some
        /\ MapOf(BaseOf(r).config) = [a |-> S("2"), b |-> S("2")]
        /\ \/ /\ params[r].config.m = [a |-> None, b |-> I("1")]
              /\ desired[r].config.m = [b |-> S("1")]
           \/ /\ params[r].config.m = [a |-> I("1")]
              /\ desired[r].config.m = [a |-> S("1"), b |-> S("2")]

\* C6: every device key of params.devices has in the desired state exactly
\* the device given in params; every device of the base whose key is not in
\* params.devices is kept as it is; there is no other device.
C6_DeviceReplace ==
    \A r \in Runs :
        Built(r) /\ params[r].devices.some
        => LET B == MapOf(BaseOf(r).devices)
               P == params[r].devices.m
               D == desired[r].devices.m
           IN /\ desired[r].devices.some
              /\ \A k \in DOMAIN P : k \in DOMAIN D /\ D[k] = P[k]
              /\ \A k \in DOMAIN B \ DOMAIN P : k \in DOMAIN D /\ D[k] = B[k]
              /\ DOMAIN D = DOMAIN B \cup DOMAIN P

\* the base had eth0 with an mtu attribute and eth1; params gave eth0
\* without mtu: the desired eth0 has no mtu and eth1 is kept
C6_Witness ==
    \E r \in Runs :
        /\ Built(r) /\ params[r].devices = Some([eth0 |-> DevY])
        /\ MapOf(BaseOf(r).devices) = [eth0 |-> DevXM, eth1 |-> DevX]
        /\ desired[r].devices.m = [eth0 |-> DevY, eth1 |-> DevX]

\* a real state=present run with a snapshot name on an existing volume in
\* which everything succeeded
FirstSnapshotRun(r) ==
    /\ r + 1 \in Runs
    /\ params[r].kind = "volume" /\ params[r].state = "present"
    /\ params[r].snapshot # ""
    /\ current[r].some
    /\ RealOk(r)

\* C7: on an existing volume, a real state=present run with a snapshot name
\* that finds the snapshot absent issues exactly one snapshot create command
\* and reports Changed; the next run with the same snapshot name (all reads
\* truthful) issues no snapshot create command and reports NoChange.
C7_SnapshotIdempotency ==
    \A r \in Runs :
        FirstSnapshotRun(r)
        => /\ (\E i \in 1..Len(calls[r]) :
                  calls[r][i].cmd = "snapshot show" /\ calls[r][i].rc # 0)
              => Count(r, "snapshot create") = 1 /\ result[r].status = "changed"
           /\ Truthful(r + 1) => Count(r + 1, "snapshot create") = 0
           /\ Truthful(r + 1) /\ Done(r + 1) => result[r + 1].status = "unchanged"

\* run 1 created the snapshot, the real run 2 found it
C7_Witness ==
    /\ FirstSnapshotRun(1)
    /\ Count(1, "snapshot create") = 1 /\ result[1].status = "changed"
    /\ Done(2) /\ ~params[2].check_mode
    /\ result[2] = [status |-> "unchanged", msg |-> "Snapshot already exists"]

\* the auxiliary parameter the mode of the request requires is missing
MissingAux(p) ==
    /\ p.kind = "volume"
    /\ \/ p.state = "restored" /\ p.snapshot = ""
       \/ p.state = "exported" /\ p.export_to = ""
       \/ p.state = "imported" /\ p.import_from = ""
       \/ p.state = "copied" /\ (p.target_pool = "" \/ p.target_volume = "")

ValidationMessages ==
    {"'snapshot' is required for state=restored",
     "'export_to' is required for state=exported",
     "'import_from' is required for state=imported",
     "'target_pool' is required for state=copied",
     "'target_volume' is required for state=copied"}

\* C8: a run whose mode lacks its required auxiliary parameter issues no
\* Gateway call at all, and ends Failed with a validation error.
C8_ValidationFirst ==
    \A r \in Runs :
        MissingAux(params[r])
        => /\ calls[r] = <<>>
           /\ Done(r) => result[r].status = "failed"
                         /\ result[r].msg \in ValidationMessages

\* the source volume of a state=copied run was reported absent
SourceAbsent(r) ==
    /\ params[r].kind = "volume" /\ params[r].state = "copied"
    /\ Len(calls[r]) >= 1
    /\ ~current[r].some
    /\ result[r].status # "crashed"

\* C9: a state=copied run whose source volume the State Reader reports
\* absent ends Failed and issues neither a copy nor a move command.
C9_CopyAbsentSource ==
    \A r \in Runs :
        SourceAbsent(r)
        => /\ Done(r) /\ result[r].status = "failed"
           /\ Count(r, "volume copy") = 0 /\ Count(r, "volume move") = 0
           /\ MutatingCalls(r) = {}

\* a real move request with both target parameters, whose source exists but
\* whose show query failed
C9_Witness ==
    \E r \in Runs :
        /\ SourceAbsent(r) /\ volume.ex
        /\ params[r].move /\ ~params[r].check_mode
        /\ params[r].target_pool # "" /\ params[r].target_volume # ""
        /\ result[r].msg = "Source volume not found"

\* C10: a real state=present run with a snapshot name that finds the volume
\* absent issues a volume create command and, its commands succeeding, does
\* not end Failed.
C10_PresentAbsentSnapshot ==
    \A r \in Runs :
        /\ params[r].kind = "volume" /\ params[r].state = "present"
        /\ params[r].snapshot # "" /\ ~params[r].check_mode
        /\ Done(r) /\ AllOk(r) /\ ~current[r].some
        => /\ Count(r, "volume create") = 1
           /\ result[r].status # "failed"

\* a state=absent run of either module that has read the current state
AbsentRun(r) ==
    /\ params[r].kind \in {"profile", "volume"} /\ params[r].state = "absent"
    /\ Len(calls[r]) >= 1
    /\ result[r].status # "crashed"

DeleteCommand(r) ==
    IF params[r].kind = "profile" THEN "profile delete" ELSE "volume delete"

\* C11: a state=absent run that finds the resource absent issues no mutating
\* call and reports NoChange; a real one that finds it and has no snapshot
\* name issues exactly one delete command and, the command succeeding,
\* reports Changed; with a snapshot name on an existing volume the only
\* mutating call ever issued is snapshot delete, none when the snapshot is
\* reported absent (NoChange); and the run after a successful absent run
\* (all reads truthful) reports NoChange without a mutating call.
C11_AbsentDispatch ==
    \A r \in Runs :
        AbsentRun(r)
        => /\ ~current[r].some
              => /\ Done(r) /\ result[r].status = "unchanged"
                 /\ MutatingCalls(r) = {}
           /\ current[r].some /\ params[r].snapshot = ""
              /\ ~params[r].check_mode /\ Done(r)
              => /\ Count(r, DeleteCommand(r)) = 1
                 /\ Cardinality(MutatingCalls(r)) = 1
                 /\ AllOk(r) => result[r].status = "changed"
           /\ current[r].some /\ params[r].snapshot # ""
              => /\ Count(r, "volume delete") = 0
                 /\ \A i \in MutatingCalls(r) : calls[r][i].cmd = "snapshot delete"
                 /\ Cardinality(MutatingCalls(r)) <= 1
                 /\ (\E i \in 1..Len(calls[r]) :
                        calls[r][i].cmd = "snapshot show" /\ calls[r][i].rc # 0)
                    => /\ Done(r) /\ result[r].status = "unchanged"
                       /\ MutatingCalls(r) = {}
           /\ r + 1 \in Runs /\ RealOk(r) /\ Truthful(r + 1)
              => /\ MutatingCalls(r + 1) = {}
                 /\ Done(r + 1) => result[r + 1].status = "unchanged"

\* run 1 deleted snapshot s1 and left the volume, the real run 2 found the
\* snapshot gone
C11_Witness ==
    /\ AbsentRun(1) /\ RealOk(1) /\ params[1].snapshot = "s1"
    /\ Count(1, "snapshot delete") = 1 /\ result[1].status = "changed"
    /\ volume.ex
    /\ Done(2) /\ ~params[2].check_mode
    /\ result[2] = [status |-> "unchanged", msg |-> "Snapshot not found"]

\* run 1 deleted the volume or the profile, run 2 found it absent
C11_WitnessDelete ==
    /\ AbsentRun(1) /\ RealOk(1) /\ params[1].snapshot = ""
    /\ Count(1, DeleteCommand(1)) = 1 /\ result[1].status = "changed"
    /\ Done(2) /\ result[2].status = "unchanged" /\ Len(calls[2]) = 1

Outcomes == {"NoChange", "WouldChange", "Changed", "Failed"}

\* C12: a run that has ended has exactly one Outcome, one of NoChange,
\* WouldChange, Changed and Failed, whatever the Gateway returned (malformed
\* show output included).
C12_OneOutcome ==
    \A r \in Runs : Done(r) => Outcome(r) \in Outcomes

\* C13: a show query (profile, volume, instance config) that exits non-zero
\* or whose output cannot be decoded is taken as "absent" / "not attached";
\* it never ends the run with an uncaught failure.
C13_ReadAbsencePolicy ==
    \A r \in Runs :
        glitch[r] > 0
        => /\ result[r].status # "crashed"
           /\ Len(calls[r]) = 1 /\ calls[r][1].cmd \in {"profile show", "volume show"}
              => ~current[r].some

\* C14: a mutating command that returns non-zero is the last Gateway call of
\* its run, and the run ends Failed with it.
C14_FailFast ==
    \A r \in Runs :
        \A i \in MutatingCalls(r) :
            calls[r][i].rc # 0
            => /\ i = Len(calls[r])
               /\ Done(r) /\ result[r].status = "failed"

\* of two keys to set the first set command succeeded and the second failed:
\* the run ended Failed, the first key stays written, nothing follows
C14_Witness ==
    \E r \in Runs :
        /\ Count(r, "volume set") = 2
        /\ calls[r][2].rc = 0 /\ calls[r][3].rc # 0 /\ Len(calls[r]) = 3
        /\ params[r].attach_to # ""
        /\ result[r] = [status |-> "failed", msg |-> "Failed to set volume config"]
        /\ \E k \in DOMAIN params[r].config.m :
              /\ k \in DOMAIN volume.config
              /\ volume.config[k] = PyStr(params[r].config.m[k])
              /\ Get(current[r].doc.config.m, k, S("")) # volume.config[k]

\* C15: a state=present run without a snapshot name on an existing volume
\* whose requested description differs from the live one does not report
\* NoChange and, when it is a real run, issues a mutating command.
C15_DescriptionCompared ==
    \A r \in Runs :
        /\ params[r].kind = "volume" /\ params[r].state = "present"
        /\ params[r].snapshot = "" /\ current[r].some
        /\ params[r].description # None
        /\ params[r].description # current[r].doc.description
        /\ Done(r) /\ Truthful(r)
        => /\ result[r].status # "unchanged"
           /\ ~params[r].check_mode => MutatingCalls(r) # {}

\* C16: every attach command of a run comes after a successful read of the
\* instance's config in the same run.
C16_AttachAfterCheck ==
    \A r \in Runs :
        \A i \in 1..Len(calls[r]) :
            calls[r][i].cmd = "volume attach"
            => \E j \in 1..(i - 1) :
                  calls[r][j].cmd = "config show" /\ calls[r][j].rc = 0

NonAttach(r) == {i \in MutatingCalls(r) : calls[r][i].cmd # "volume attach"}

Attaches(r) == {i \in 1..Len(calls[r]) : calls[r][i].cmd = "volume attach"}

\* C17 as stated: the calls of a run are read-only queries first, then at
\* most two mutating calls other than attach, then at most one attach call.
C17_CallShape ==
    \A r \in Runs :
        /\ Cardinality(NonAttach(r)) <= 2
        /\ Cardinality(Attaches(r)) <= 1
        /\ \A i \in Attaches(r) : \A j \in NonAttach(r) : j < i
        /\ \A i \in 1..Len(calls[r]) :
              calls[r][i].cmd \in ReadOnly => \A j \in MutatingCalls(r) : i < j

\* C17 amended: a run but state=imported begins with a read-only query; it
\* issues at most one attach call, which is its last call; a profile run
\* issues at most two mutating calls; a volume run issues either at most one
\* mutating call other than attach, or set commands only, at most one for
\* each config key that differs from the state it read.
C17_CallShapeAmended ==
    \A r \in Runs :
        /\ Len(calls[r]) >= 1 /\ params[r].state # "imported"
           => calls[r][1].cmd \in ReadOnly
        /\ Cardinality(Attaches(r)) <= 1
        /\ \A i \in Attaches(r) : i = Len(calls[r])
        /\ params[r].kind = "profile" => Cardinality(MutatingCalls(r)) <= 2
        /\ params[r].kind = "volume"
           => /\ \/ Cardinality(NonAttach(r)) <= 1
                 \/ \A i \in NonAttach(r) : calls[r][i].cmd = "volume set"
              /\ Count(r, "volume set") > 0
                 => Count(r, "volume set")
                       <= Cardinality(ChangedKeys(params[r], current[r].doc))

\* three keys differed: three set commands, then the two attachment queries,
\* then the attach command
C17_Witness ==
    \E r \in Runs :
        /\ Count(r, "volume set") = 3 /\ Len(calls[r]) = 7
        /\ calls[r][5].cmd = "config device list" /\ calls[r][6].cmd = "config show"
        /\ calls[r][7].cmd = "volume attach" /\ calls[r][7].rc = 0
        /\ result[r].status = "changed"

\* a state=restored run with a snapshot name that has asked for the snapshot
RestoreRun(r) ==
    /\ params[r].kind = "volume" /\ params[r].state = "restored"
    /\ params[r].snapshot # ""
    /\ Count(r, "snapshot show") = 1

SnapshotFound(r) ==
    \E i \in 1..Len(calls[r]) :
        calls[r][i].cmd = "snapshot show" /\ calls[r][i].rc = 0

\* C18: a state=restored run with a snapshot name whose snapshot query finds
\* no such snapshot (the volume may be absent too) ends Failed without a
\* restore command; when the snapshot is found, a real run issues exactly
\* one restore command and, the command succeeding, reports Changed.
C18_RestoreDispatch ==
    \A r \in Runs :
        RestoreRun(r)
        => /\ ~SnapshotFound(r)
              => /\ Done(r) /\ result[r].status = "failed"
                 /\ result[r].msg = "Snapshot not found"
                 /\ MutatingCalls(r) = {}
           /\ SnapshotFound(r) => volume.ex /\ params[r].snapshot \in snapshots
           /\ SnapshotFound(r) /\ ~params[r].check_mode /\ Done(r)
              => /\ Count(r, "snapshot restore") = 1
                 /\ Cardinality(MutatingCalls(r)) = 1
                 /\ AllOk(r) => result[r].status = "changed" /\ others.restores

\* the volume is absent, so is its snapshot: the real restore run failed
\* without a command
C18_Witness ==
    \E r \in Runs :
        /\ RestoreRun(r) /\ ~params[r].check_mode /\ Done(r) /\ glitch[r] = 0
        /\ ~current[r].some /\ ~volume.ex
        /\ result[r] = [status |-> "failed", msg |-> "Snapshot not found"]
        /\ Len(calls[r]) = 2

\* the snapshot exists and the real run restored it
C18_WitnessRestored ==
    \E r \in Runs :
        /\ RestoreRun(r) /\ ~params[r].check_mode /\ Done(r)
        /\ SnapshotFound(r) /\ Count(r, "snapshot restore") = 1
        /\ result[r].status = "changed"

\* the base the spec gives the desired state of run r
ExpectedBase(r) ==
    IF params[r].source.kind = "file" THEN params[r].source.doc
    ELSE IF current[r].some THEN current[r].doc
    ELSE Skeleton

\* the request of run r without a declaration file and without parameters
Bare(r) ==
    [params[r] EXCEPT !.source = NoSource, !.description = None,
                      !.config = NoMap, !.devices = NoMap]

\* run r or a later run has had an edit command applied
EditedSince(r) ==
    \E q \in Runs :
        /\ q >= r
        /\ \E i \in 1..Len(calls[q]) :
              calls[q][i].cmd = "profile edit" /\ calls[q][i].rc = 0

\* C20: every field of the desired state that the parameters do not give is
\* the field of the declaration file when there is one (whatever the live
\* state holds), of the current state otherwise, and a merged field holds no
\* key that is neither in that base nor in the parameters; with neither file
\* nor current state the builder gives description '', config {}, devices
\* {}; and, as long as no edit has been applied since, the current state
\* update compares against is still the state of the external system it was
\* fetched from.
C20_BaseSelection ==
    \A r \in Runs :
        Built(r)
        => LET B == ExpectedBase(r)
               P == params[r]
               D == desired[r]
           IN /\ P.description = None => D.description = B.description
              /\ ~P.config.some => D.config = B.config
              /\ P.config.some
                 => /\ \A k \in DOMAIN MapOf(B.config) \ DOMAIN P.config.m :
                          k \in DOMAIN D.config.m
                          /\ D.config.m[k] = MapOf(B.config)[k]
                    /\ DOMAIN D.config.m
                          \subseteq DOMAIN MapOf(B.config) \cup DOMAIN P.config.m
              /\ ~P.devices.some => D.devices = B.devices
              /\ P.devices.some
                 => DOMAIN D.devices.m
                       = DOMAIN MapOf(B.devices) \cup DOMAIN P.devices.m
              /\ get_desired_state(Bare(r), NoDoc) = Skeleton
              /\ Truthful(r) /\ ~EditedSince(r)
                 => current[r] = [some |-> TRUE, doc |-> profile.doc]

\* the file gives only config {a: "1"}; the live profile has keys a and b and
\* two devices: the desired state has neither b nor the devices
C20_Witness ==
    \E r \in Runs :
        /\ Built(r) /\ params[r].source.kind = "file"
        /\ params[r].source.doc = Doc(None, Some([a |-> S("1")]), NoMap)
        /\ params[r].config = NoMap /\ params[r].devices = NoMap
        /\ current[r].doc.config.m = [a |-> S("2"), b |-> S("2")]
        /\ current[r].doc.devices.m = [eth0 |-> DevXM, eth1 |-> DevX]
        /\ desired[r].config = Some([a |-> S("1")])
        /\ desired[r].devices = NoMap
        /\ profile.doc = current[r].doc

\* without a file, the live keys the parameters do not mention are kept and
\* the fetched state is untouched by the merge
C20_WitnessCopy ==
    \E r \in Runs :
        /\ Built(r) /\ params[r].source.kind = "none" /\ pc[r] = "p_edit"
        /\ params[r].config = Some([a |-> I("1")])
        /\ current[r].doc.config.m = [a |-> S("2"), b |-> S("2")]
        /\ desired[r].config.m = [a |-> S("1"), b |-> S("2")]
        /\ profile.doc = current[r].doc

\* run r, one of the concurrent runs, found the profile at both of its reads
ReadExisting(r) == params[r].kind = "profile" /\ current[r].some

EditApplied(r) ==
    \E i \in 1..Len(calls[r]) :
        calls[r][i].cmd = "profile edit" /\ calls[r][i].rc = 0

\* what the edit of run r must leave in the external system: the state run
\* r read with the parameters of run r merged in, whatever the profile held
\* when the edit arrived
WrittenBy(r, doc) ==
    LET C == current[r].doc
        P == params[r]
    IN /\ doc.description = (IF P.description = None THEN C.description
                             ELSE P.description)
       /\ doc.devices = C.devices
       /\ \A k \in DOMAIN MapOf(P.config) :
             IF P.config.m[k] = None
             THEN k \notin DOMAIN doc.config.m
             ELSE k \in DOMAIN doc.config.m
                  /\ doc.config.m[k] = PyStr(P.config.m[k])
       /\ \A k \in DOMAIN C.config.m \ DOMAIN MapOf(P.config) :
             k \in DOMAIN doc.config.m /\ doc.config.m[k] = C.config.m[k]
       /\ DOMAIN doc.config.m \subseteq DOMAIN C.config.m \cup DOMAIN MapOf(P.config)

\* of the interleaved runs none waits for another, and none ends Failed
\* unless a command of its own failed
NeverBlocked ==
    \A r \in Runs :
        /\ pc[r] \notin {"idle", "done"} => ENABLED ProfileStep(r)
        /\ ReadExisting(r) /\ Done(r) /\ AllOk(r)
           => result[r].status \in {"changed", "unchanged"}

\* once all runs have ended, the profile is what one of the runs whose edit
\* was applied wrote from the state it had read
FinalIsOneWrite ==
    (\A r \in Runs : Done(r)) /\ (\E r \in Runs : EditApplied(r))
    => \E r \in Runs : EditApplied(r) /\ WrittenBy(r, profile.doc)

\* C19: when state=present runs on the same profile interleave, none blocks
\* or is rejected, and every edit that is applied replaces the profile by
\* the desired state its run computed from the state that run had read,
\* whatever the other runs wrote in between: the last edit wins.
C19_LastWriteWins ==
    /\ []NeverBlocked
    /\ []FinalIsOneWrite
    /\ [][\A r \in Runs :
             pc[r] = "p_edit" /\ pc'[r] = "done" /\ result'[r].status = "changed"
             => WrittenBy(r, profile'.doc)]_vars

\* both runs read the profile with an empty config, run 1 wrote a, run 2
\* wrote b last: the profile has b only, the key of run 1 is lost
C19_Witness ==
    /\ params[1].config = Some([a |-> I("1")])
    /\ params[2].config = Some([b |-> I("1")])
    /\ current[1].doc.config.m = EmptyMap /\ current[2].doc.config.m = EmptyMap
    /\ Done(1) /\ Done(2) /\ EditApplied(1) /\ EditApplied(2)
    /\ result[1].status = "changed" /\ result[2].status = "changed"
    /\ profile.doc.config.m = [b |-> S("1")]

\* the ChangeSet of run r is not empty: a field of the desired state is not
\* the field of the current state
ChangeSetNonEmpty(r) ==
    \E f \in {"description", "config", "devices"} :
        current[r].doc[f] # desired[r][f]

\* run r is at its edit command or has issued it
EditIssued(r) == pc[r] = "p_edit" \/ Count(r, "profile edit") >= 1

\* C21: on an existing profile the edit command is issued exactly when the
\* ChangeSet is non-empty and the run is real, at most once, and an empty
\* ChangeSet ends the run NoChange; a run that created the profile issues
\* create and then exactly one edit, empty ChangeSet or not, and reports
\* Changed when both succeed.
C21_UpdateTrigger ==
    \A r \in Runs :
        Built(r)
        => /\ Count(r, "profile edit") <= 1
           /\ ~new_create[r]
              => /\ EditIssued(r)
                    <=> (ChangeSetNonEmpty(r) /\ ~params[r].check_mode)
                 /\ ~ChangeSetNonEmpty(r)
                    => Done(r) /\ result[r].status = "unchanged"
                 /\ Count(r, "profile create") = 0
           /\ new_create[r]
              => /\ EditIssued(r)
                 /\ Done(r)
                    => /\ [i \in 1..Len(calls[r]) |-> calls[r][i].cmd]
                          = <<"profile show", "profile create",
                              "profile show", "profile edit">>
                       /\ AllOk(r) => result[r].status = "changed"

\* a profile created from a request that asks for nothing: the ChangeSet
\* against the fresh profile is empty, the edit was issued all the same
C21_Witness ==
    \E r \in Runs :
        /\ Built(r) /\ new_create[r] /\ ~ChangeSetNonEmpty(r)
        /\ Done(r) /\ Count(r, "profile edit") = 1
        /\ result[r] = [status |-> "changed", msg |-> "Profile updated"]

\* an existing profile that already matches: no edit, NoChange
C21_WitnessNoChange ==
    \E r \in Runs :
        /\ Built(r) /\ ~new_create[r] /\ ~ChangeSetNonEmpty(r)
        /\ params[r].config.some /\ DOMAIN params[r].config.m # {}
        /\ Done(r) /\ Count(r, "profile edit") = 0
        /\ result[r].status = "unchanged"

\* a state=present run without a snapshot name that found the volume
VolumeUpdateRun(r) ==
    /\ params[r].kind = "volume" /\ params[r].state = "present"
    /\ params[r].snapshot = "" /\ current[r].some

\* the key=value pairs of the set commands run r has issued
SetPairs(r) ==
    UNION {calls[r][i].args : i \in {j \in 1..Len(calls[r]) :
                                        calls[r][j].cmd = "volume set"}}

\* the live value of key k as run r read it, as a string, "" when missing
LiveString(r, k) ==
    IF k \in DOMAIN current[r].doc.config.m
    THEN PyStr(current[r].doc.config.m[k]).v
    ELSE ""

\* C22: in a volume update every set command is for a key of params.config
\* whose live value, as a string ("" when missing), is not the string of the
\* requested value, and carries that string; no key gets two set commands;
\* and a real run in which every command succeeded has issued one for each
\* such key.
C22_OnlyChangedKeys ==
    \A r \in Runs :
        VolumeUpdateRun(r)
        => LET P == MapOf(params[r].config)
               differing == {k \in DOMAIN P : LiveString(r, k) # PyStr(P[k]).v}
           IN /\ \A kv \in SetPairs(r) :
                    kv[1] \in differing /\ kv[2] = PyStr(P[kv[1]]).v
              /\ Count(r, "volume set") = Cardinality(SetPairs(r))
              /\ RealOk(r) => {kv[1] : kv \in SetPairs(r)} = differing
              /\ params[r].check_mode => SetPairs(r) = {}

\* live {a: "1"}, requested {a: 1, b: 1}: one set command, for b
C22_Witness ==
    \E r \in Runs :
        /\ VolumeUpdateRun(r) /\ RealOk(r)
        /\ current[r].doc.config.m = [a |-> S("1")]
        /\ params[r].config = Some([a |-> I("1"), b |-> I("1")])
        /\ SetPairs(r) = {<<"b", "1">>}
        /\ Count(r, "volume set") = 1

\* C23: no create argument and no set command of a state=present volume run
\* writes a value for a key that params.config maps to null, and after a
\* real run in which everything succeeded the volume's config has no such
\* key.
C23_NullMeansDelete ==
    \A r \in Runs :
        /\ params[r].kind = "volume" /\ params[r].state = "present"
        /\ params[r].config.some
        => \A k \in DOMAIN params[r].config.m :
              params[r].config.m[k] = None
              => /\ \A i \in 1..Len(calls[r]) :
                       \A kv \in calls[r][i].args : kv[1] # k
                 /\ RealOk(r) /\ params[r].snapshot = ""
                    => k \notin DOMAIN volume.config

\* C24: after a real state=present volume run with attach_to that ended
\* Changed or NoChange, the instance has a device under the attach-device
\* name.
C24_AttachAdditive ==
    \A r \in Runs :
        /\ params[r].kind = "volume" /\ params[r].state = "present"
        /\ params[r].attach_to # "" /\ ~params[r].check_mode
        /\ Done(r) /\ result[r].status \in {"changed", "unchanged"}
        => attach_device(params[r]) \in inst_devices

\* C24 without a snapshot name, which is where the code attaches
C24_NoSnapshotCase ==
    \A r \in Runs :
        /\ params[r].kind = "volume" /\ params[r].state = "present"
        /\ params[r].attach_to # "" /\ ~params[r].check_mode
        /\ params[r].snapshot = ""
        /\ Done(r) /\ result[r].status \in {"changed", "unchanged"}
        => attach_device(params[r]) \in inst_devices

\* C25: a real run that ends NoChange has issued no mutating call; a real
\* run that ends Changed has issued at least one, and every mutating call
\* it issued returned 0.
C25_OutcomeReflectsMutation ==
    \A r \in Runs :
        Done(r) /\ params[r].kind # "none" /\ ~params[r].check_mode
        => /\ Outcome(r) = "NoChange" => MutatingCalls(r) = {}
           /\ Outcome(r) = "Changed"
              => /\ MutatingCalls(r) # {}
                 /\ \A i \in MutatingCalls(r) : calls[r][i].rc = 0

\* a real volume update with attach_to that found the config as requested
\* and the device in place: no mutating call, NoChange
C25_Witness ==
    \E r \in Runs :
        /\ VolumeUpdateRun(r) /\ Done(r) /\ ~params[r].check_mode
        /\ params[r].attach_to # "" /\ params[r].config.some
        /\ DOMAIN params[r].config.m # {}
        /\ Count(r, "config show") = 1
        /\ Outcome(r) = "NoChange" /\ MutatingCalls(r) = {}

\* a real volume update that set a key and attached: Changed, two mutating
\* calls, both with exit status 0
C25_WitnessChanged ==
    \E r \in Runs :
        /\ VolumeUpdateRun(r) /\ Done(r) /\ ~params[r].check_mode
        /\ Outcome(r) = "Changed" /\ Cardinality(MutatingCalls(r)) = 2
        /\ Count(r, "volume attach") = 1

\* run r was a dry run and run r+1 the same request for real, from the
\* state the dry run started in (a dry run changes nothing, C1); all reads
\* of both told the truth and every command of the real run succeeded
DryThenReal(r) ==
    /\ r + 1 \in Runs
    /\ params[r].kind # "none" /\ params[r].check_mode
    /\ ~params[r + 1].check_mode
    /\ Done(r) /\ Done(r + 1)
    /\ Truthful(r) /\ Truthful(r + 1) /\ AllOk(r + 1)

\* C26: the dry run and the real run of the same request from the same
\* state report the same status, when every mutating command of the real
\* run succeeds.
C26_DryRunPredicts ==
    \A r \in Runs :
        DryThenReal(r) => result[r].status = result[r + 1].status

\* C26 apart from the creation of a profile from a declaration file that
\* cannot be loaded
C26_ButUnloadableSource ==
    \A r \in Runs :
        DryThenReal(r)
        /\ ~(params[r].kind = "profile" /\ params[r].state = "present"
             /\ ~load_source(params[r].source).ok /\ ~current[r].some)
        => result[r].status = result[r + 1].status

\* the mutating commands of the mode a request asks for
Repertoire(p) ==
    IF p.state = "present"
    THEN {"profile create", "profile edit", "volume create", "volume set",
          "snapshot create", "volume attach"}
    ELSE IF p.state = "absent"
    THEN {"profile delete", "volume delete", "snapshot delete"}
    ELSE IF p.state = "restored" THEN {"snapshot restore"}
    ELSE IF p.state = "exported" THEN {"volume export"}
    ELSE IF p.state = "imported" THEN {"volume import", "volume attach"}
    ELSE IF p.move THEN {"volume move"} ELSE {"volume copy"}

\* C27: every mutating command a run issues is in the repertoire of the
\* requested mode, and is a command of the module that was invoked.
C27_ModeExclusivity ==
    \A r \in Runs :
        \A i \in MutatingCalls(r) :
            /\ calls[r][i].cmd \in Repertoire(params[r])
            /\ params[r].kind = "profile"
               <=> calls[r][i].cmd \in {"profile create", "profile edit",
                                        "profile delete"}

\* a copied request with the move flag issued the move command, not copy:
\* the source volume is gone and the target is there
C27_Witness ==
    \E r \in Runs :
        /\ params[r].state = "copied" /\ params[r].move
        /\ Done(r) /\ result[r].status = "changed"
        /\ Count(r, "volume move") = 1 /\ Count(r, "volume copy") = 0
        /\ Cardinality(MutatingCalls(r)) = 1
        /\ ~volume.ex /\ others.target

\* a restore run issued the restore command and nothing else
C27_WitnessRestore ==
    \E r \in Runs :
        /\ params[r].state = "restored" /\ Done(r)
        /\ Count(r, "snapshot restore") = 1 /\ Cardinality(MutatingCalls(r)) = 1

====
